---- MODULE Spec2Model ----
(***************************************************************************)
(* A model of example_ncbi.py: the limit_calls decorator, the esearch XML  *)
(* parser, the rate-limited lookup, the questionnaire answer splitter and  *)
(* the report printer.                                                     *)
(*                                                                         *)
(* Time is counted in hundredths of a second, so delta_time = 0.35 s is 35 *)
(* and small_delta_time = 0.01 s is 1.  The clock read by time.time() is   *)
(* taken to be monotonic.                                                  *)
(***************************************************************************)
EXTENDS Integers, Sequences, FiniteSets, TLC

VARIABLES
    \* ---- limit_calls instance and the thread running its wrap() ----
    now,            \* the clock time.time() reads
    previous_time,  \* self.previous_time: None or <<t>>
    lpc,            \* position of the thread inside wrap()
    time_to_sleep,  \* the local time_to_sleep of wrap()
    elapsed,        \* time.time() - self.previous_time as read at line 61
    slept,          \* the argument given to time.sleep in this invocation
    func_start,     \* when the wrapped function was entered
    last_end,       \* when the wrapped function last came back: None or <<t>>
    last_kind,      \* how it came back: "returned" or "raised"
    \* ---- one call of get_gene_ids_from_gene_symbol / get_gene_ids_from_xml ----
    xml,            \* the children of the root of the document being parsed
    response_ok,    \* response.ok
    xpc,            \* "building", "parsed", "returned" or "raised"
    ret,            \* None, or <<v>> for the returned value v
    exc,            \* None, or <<class>> for the exception raised
    \* ---- get_questionnaire_answers ----
    q_answers,              \* q.answers
    apc,                    \* "asked" or "done"
    selected_organisms,     \* the pair returned at line 165
    selected_gene_symbols,
    \* ---- main and print_gene_info ----
    organisms,      \* the arguments of print_gene_info
    gene_symbols,
    gi,             \* position of the outer loop in gene_symbols
    oi,             \* position of the inner loop in organisms
    ppc,            \* position of the thread inside print_gene_info
    gene_ids,       \* the local gene_ids
    gene_ids_str,   \* the local gene_ids_str
    trace,          \* what the run did so far: lines printed and lookups made
    uncaught        \* None, or <<class>> for the exception that ended the run

limiterVars == <<now, previous_time, lpc, time_to_sleep, elapsed, slept,
                 func_start, last_end, last_kind>>

lookupVars == <<xml, response_ok, xpc, ret, exc>>

answerVars == <<q_answers, apc, selected_organisms, selected_gene_symbols>>

reportVars == <<organisms, gene_symbols, gi, oi, ppc, gene_ids, gene_ids_str,
                trace, uncaught>>

vars == <<limiterVars, lookupVars, answerVars, reportVars>>

None == <<>>

Max(a, b) == IF a >= b THEN a ELSE b

-----------------------------------------------------------------------------
(* Bounds *)
MaxTime == 75
MaxOversleep == 1
MaxRootChildren == 2    \* children of the root of a document
MaxSubNodes == 3        \* grandchildren of the root, over the whole document
MaxTextLen == 5         \* characters typed at the gene symbol prompt
MaxPairs == 4           \* (gene symbol, organism) pairs of one report

-----------------------------------------------------------------------------
(* int(text), as line 106 applies it to the text of an element *)

DigitChars == <<"0", "1", "2", "3", "4", "5", "6", "7", "8", "9">>

IsDigit(c) == \E d \in 1..10 : DigitChars[d] = c

DigitValue(c) == (CHOOSE d \in 1..10 : DigitChars[d] = c) - 1

IsSpace(c) == c \in {" ", "\t", "\n"}

RECURSIVE LStrip(_)
LStrip(s) == IF s # <<>> /\ IsSpace(s[1]) THEN LStrip(Tail(s)) ELSE s

RECURSIVE RStrip(_)
RStrip(s) ==
    IF s # <<>> /\ IsSpace(s[Len(s)]) THEN RStrip(SubSeq(s, 1, Len(s) - 1)) ELSE s

\* str.strip()
Strip(s) == RStrip(LStrip(s))

RECURSIVE DigitsValue(_)
DigitsValue(s) ==
    IF s = <<>> THEN 0
    ELSE 10 * DigitsValue(SubSeq(s, 1, Len(s) - 1)) + DigitValue(s[Len(s)])

\* The digits of the literal once blanks and the sign are taken off.
IntDigits(text) ==
    LET t == Strip(text)
    IN  IF t # <<>> /\ t[1] \in {"+", "-"} THEN Tail(t) ELSE t

\* int(text) does not raise.  The text of an element without text is None,
\* written <<>>, and int(None) raises TypeError.
IntParses(text) ==
    /\ IntDigits(text) # <<>>
    /\ \A i \in 1..Len(IntDigits(text)) : IsDigit(IntDigits(text)[i])

\* The value of int(text) when it does not raise.
IntValue(text) ==
    LET t == Strip(text)
        v == DigitsValue(IntDigits(text))
    IN  IF t[1] = "-" THEN 0 - v ELSE v

-----------------------------------------------------------------------------
(* get_gene_ids_from_xml *)

\* A plausible slip: only the children tagged Id are converted.
RECURSIVE CollectIdsTaggedOnly(_, _, _)
CollectIdsTaggedOnly(node, k, ids) ==
    IF k > Len(node) THEN ids
    ELSE IF node[k].tag = "Id" /\ IntParses(node[k].text)
           THEN CollectIdsTaggedOnly(node, k + 1,
                                     Append(ids, IntValue(node[k].text)))
           ELSE CollectIdsTaggedOnly(node, k + 1, ids)

\* Lines 104-108: the loop over the children of the IdList node.
RECURSIVE CollectIds(_, _, _)
CollectIds(node, k, ids) ==
    IF k > Len(node) THEN ids
    ELSE IF IntParses(node[k].text)
           THEN CollectIds(node, k + 1, Append(ids, IntValue(node[k].text)))
           ELSE CollectIds(node, k + 1, ids)

\* A plausible slip: an IdList that does not qualify is passed over
\* (continue) instead of ending the scan (return []).
RECURSIVE ScanRootSkipping(_, _)
ScanRootSkipping(root, k) ==
    IF k > Len(root) THEN <<>>
    ELSE LET node == root[k].children
         IN  IF root[k].tag # "IdList" THEN ScanRootSkipping(root, k + 1)
             ELSE IF Len(node) = 0 \/ node[1].tag # "Id"
                    THEN ScanRootSkipping(root, k + 1)
                    ELSE CollectIds(node, 1, <<>>)

\* Lines 96-115: the loop over the children of the root, from child k on.
RECURSIVE ScanRoot(_, _)
ScanRoot(root, k) ==
    IF k > Len(root) THEN <<>>
    ELSE LET node == root[k].children
         IN  IF root[k].tag # "IdList" THEN ScanRoot(root, k + 1)
             ELSE IF Len(node) = 0 \/ node[1].tag # "Id" THEN <<>>
             ELSE LET ids == CollectIds(node, 1, <<>>)
                  IN  IF Len(ids) > 0 THEN ids ELSE <<>>

get_gene_ids_from_xml(root) == ScanRoot(root, 1)

-----------------------------------------------------------------------------
(* get_gene_ids_from_gene_symbol, lines 132-140 *)

\* A plausible slip: the status of the response is not looked at.
get_gene_ids_ignoring_status(response) ==
    [exc |-> None, ret |-> <<get_gene_ids_from_xml(response.text)>>]

\* Lines 135-140: raise ValueError on a response that is not ok, otherwise
\* return what the parser makes of the body.
get_gene_ids_from_gene_symbol(response) ==
    IF ~response.ok
      THEN [exc |-> <<"ValueError">>, ret |-> None]
      ELSE [exc |-> None, ret |-> <<get_gene_ids_from_xml(response.text)>>]

\* The built-in exception classes concerned, each with its base class.
PyExceptionBase ==
    [ValueError |-> "Exception", LookupError |-> "Exception",
     KeyError |-> "LookupError", IndexError |-> "LookupError",
     Exception |-> "BaseException", BaseException |-> "object"]

RECURSIVE IsSubclass(_, _)
IsSubclass(cls, base) ==
    \/ cls = base
    \/ cls \in DOMAIN PyExceptionBase /\ IsSubclass(PyExceptionBase[cls], base)

-----------------------------------------------------------------------------
(* The endpoint writes a response; the program parses it *)

RootTags == {"IdList", "Count"}
SubTags == {"Id", "Count"}
Texts == { <<"1", "2">>, <<"a", "b", "c">>, <<"3", "4">>, <<" ", "-", "5">>, <<>> }

RECURSIVE CountSubNodes(_)
CountSubNodes(root) ==
    IF root = <<>> THEN 0
    ELSE Len(root[1].children) + CountSubNodes(Tail(root))

InitLookupVars ==
    /\ xml = <<>>
    /\ response_ok = TRUE
    /\ xpc = "building"
    /\ ret = None
    /\ exc = None

\* The endpoint writes one more child of the root.
EndpointAddNode ==
    /\ xpc = "building"
    /\ Len(xml) < MaxRootChildren
    /\ \E tag \in RootTags :
          xml' = Append(xml, [tag |-> tag, children |-> <<>>])
    /\ UNCHANGED <<response_ok, xpc, ret, exc>>
    /\ UNCHANGED <<limiterVars, answerVars, reportVars>>

\* The endpoint writes one more child of the last child of the root.
EndpointAddSubNode ==
    /\ xpc = "building"
    /\ xml # <<>>
    /\ CountSubNodes(xml) < MaxSubNodes
    /\ \E tag \in SubTags, text \in Texts :
          xml' = [xml EXCEPT ![Len(xml)].children =
                       Append(@, [tag |-> tag, text |-> text])]
    /\ UNCHANGED <<response_ok, xpc, ret, exc>>
    /\ UNCHANGED <<limiterVars, answerVars, reportVars>>

\* test.py line 23: the parser is called on the document.
ParseXml ==
    /\ xpc = "building"
    /\ ret' = <<get_gene_ids_from_xml(xml)>>
    /\ xpc' = "parsed"
    /\ UNCHANGED <<xml, response_ok, exc>>
    /\ UNCHANGED <<limiterVars, answerVars, reportVars>>

\* Lines 133-140: the response arrives, ok or not, with the document as its
\* body.
LookupGeneIds ==
    /\ xpc = "building"
    /\ \E ok \in BOOLEAN :
          LET r == get_gene_ids_from_gene_symbol([ok |-> ok, text |-> xml])
          IN  /\ response_ok' = ok
              /\ ret' = r.ret
              /\ exc' = r.exc
              /\ xpc' = IF r.exc = None THEN "returned" ELSE "raised"
    /\ UNCHANGED xml
    /\ UNCHANGED <<limiterVars, answerVars, reportVars>>

-----------------------------------------------------------------------------
(* get_questionnaire_answers *)

predefined_organisms ==
    <<"Homo sapiens", "Mus musculus", "Danio rerio", "Cricetulus griseus",
      "Bos taurus", "Gallus gallus", "Sus scrofa", "Rattus norvegicus">>

predefined_gene_symbols == <<"BRCA1", "BRCA2", "BAD", "TP63">>

\* The elements of list at the positions in chosen, in list order: what
\* q.many returns for the options ticked.
RECURSIVE Ticked(_, _, _)
Ticked(list, chosen, k) ==
    IF k > Len(list) THEN <<>>
    ELSE (IF k \in chosen THEN <<list[k]>> ELSE <<>>) \o Ticked(list, chosen, k + 1)

Selections(list) == {Ticked(list, chosen, 1) : chosen \in SUBSET (1..Len(list))}

\* text.split(): the runs between blanks, none of them empty.
RECURSIVE SplitBlanks(_, _, _)
SplitBlanks(text, k, word) ==
    IF k > Len(text) THEN (IF word = <<>> THEN <<>> ELSE <<word>>)
    ELSE IF IsSpace(text[k])
           THEN (IF word = <<>> THEN <<>> ELSE <<word>>) \o SplitBlanks(text, k + 1, <<>>)
           ELSE SplitBlanks(text, k + 1, Append(word, text[k]))

\* val.split(","): the pieces between commas, the empty ones included.
RECURSIVE SplitCommas(_, _, _)
SplitCommas(val, k, piece) ==
    IF k > Len(val) THEN <<piece>>
    ELSE IF val[k] = ","
           THEN <<piece>> \o SplitCommas(val, k + 1, <<>>)
           ELSE SplitCommas(val, k + 1, Append(piece, val[k]))

\* A plausible slip: the test of line 162 is left out.
RECURSIVE SymbolsOfValKeepingEmpty(_, _)
SymbolsOfValKeepingEmpty(pieces, k) ==
    IF k > Len(pieces) THEN <<>>
    ELSE <<Strip(pieces[k])>> \o SymbolsOfValKeepingEmpty(pieces, k + 1)

\* Lines 160-163: the inner loop over the pieces of one val.
RECURSIVE SymbolsOfVal(_, _)
SymbolsOfVal(pieces, k) ==
    IF k > Len(pieces) THEN <<>>
    ELSE LET gene_symbol == Strip(pieces[k])
         IN  (IF gene_symbol # <<>> THEN <<gene_symbol>> ELSE <<>>)
                 \o SymbolsOfVal(pieces, k + 1)

\* Lines 158-163: the outer loop over split_text.
RECURSIVE SymbolsOfText(_, _)
SymbolsOfText(split_text, k) ==
    IF k > Len(split_text) THEN <<>>
    ELSE SymbolsOfVal(SplitCommas(split_text[k], 1, <<>>), 1)
             \o SymbolsOfText(split_text, k + 1)

\* Lines 148-165.
get_questionnaire_answers(answers) ==
    <<answers.organisms,
      IF answers.gene_symbol_input = "predefined"
        THEN answers.gene_symbols
        ELSE SymbolsOfText(SplitBlanks(answers.gene_symbols, 1, <<>>), 1)>>

TypedChars == {"A", "B", " ", ",", "\t"}

\* Every text of 1 to MaxTextLen characters: not_blank (line 218) turns the
\* empty text down.
TypedTexts == UNION {[1..n -> TypedChars] : n \in 1..MaxTextLen}

InitAnswerVars ==
    /\ q_answers \in
          {[organisms |-> o, gene_symbol_input |-> "predefined", gene_symbols |-> g] :
              o \in Selections(SubSeq(predefined_organisms, 1, 2)), g \in Selections(predefined_gene_symbols)}
          \cup
          {[organisms |-> o, gene_symbol_input |-> "user-defined", gene_symbols |-> t] :
              o \in Selections(SubSeq(predefined_organisms, 1, 2)), t \in TypedTexts}
    /\ apc = "asked"
    /\ selected_organisms = <<>>
    /\ selected_gene_symbols = <<>>

\* The questionnaire has not been run.
NoAnswers ==
    /\ q_answers = [organisms |-> <<>>, gene_symbol_input |-> "predefined",
                    gene_symbols |-> <<>>]
    /\ apc = "asked"
    /\ selected_organisms = <<>>
    /\ selected_gene_symbols = <<>>

\* Line 245.
GetQuestionnaireAnswers ==
    /\ apc = "asked"
    /\ selected_organisms' = get_questionnaire_answers(q_answers)[1]
    /\ selected_gene_symbols' = get_questionnaire_answers(q_answers)[2]
    /\ apc' = "done"
    /\ UNCHANGED q_answers
    /\ UNCHANGED <<limiterVars, lookupVars, reportVars>>

-----------------------------------------------------------------------------
(* print_gene_info and main *)

\* str(n) for n >= 0.
RECURSIVE StrNat(_)
StrNat(n) ==
    IF n < 10 THEN <<DigitChars[n + 1]>>
    ELSE StrNat(n \div 10) \o <<DigitChars[(n % 10) + 1]>>

\* str(n)
Str(n) == IF n < 0 THEN <<"-">> \o StrNat(0 - n) ELSE StrNat(n)

\* sep.join(map(str, list))
RECURSIVE Join(_, _)
Join(sep, list) ==
    IF list = <<>> THEN <<>>
    ELSE IF Len(list) = 1 THEN Str(list[1])
    ELSE Str(list[1]) \o sep \o Join(sep, Tail(list))

\* A plausible slip: the numbers are joined with "," alone.
FormatGeneIdsTight(ids, is_zero) ==
    IF Len(ids) = 0 /\ is_zero THEN <<>>
    ELSE IF Len(ids) = 1 THEN Str(ids[1])
    ELSE Join(<<",">>, ids)

\* Lines 187-192.  is_zero is the outcome of "len(gene_ids) is 0" for an
\* empty list: an identity test, true where the interpreter shares the
\* small integers.
FormatGeneIds(ids, is_zero) ==
    IF Len(ids) = 0 /\ is_zero THEN <<>>
    ELSE IF Len(ids) = 1 THEN Str(ids[1])
    ELSE Join(<<",", " ">>, ids)

\* Bodies the endpoint answers a lookup with.
SampleBodies ==
    { << [tag |-> "Count", children |-> <<>>] >>,
      << [tag |-> "Count", children |-> <<>>],
         [tag |-> "IdList",
          children |-> << [tag |-> "Id", text |-> <<"6", "7", "2">>] >>] >>,
      << [tag |-> "IdList",
          children |-> << [tag |-> "Id", text |-> <<"1", "2">>],
                          [tag |-> "Id", text |-> <<"a", "b", "c">>],
                          [tag |-> "Id", text |-> <<"3", "4">>] >>] >> }

Responses ==
    {[ok |-> TRUE, text |-> b] : b \in SampleBodies}
        \cup {[ok |-> FALSE, text |-> <<>>]}

\* print_gene_info has not been called.
NoReport ==
    /\ organisms = <<>>
    /\ gene_symbols = <<>>
    /\ gi = 0
    /\ oi = 0
    /\ ppc = "outer"
    /\ gene_ids = <<>>
    /\ gene_ids_str = <<>>
    /\ trace = <<>>
    /\ uncaught = None

\* Line 251: print_gene_info is called with the selections.
InitReportVars ==
    /\ organisms \in Selections(predefined_organisms)
    /\ gene_symbols \in Selections(predefined_gene_symbols)
    /\ Len(organisms) * Len(gene_symbols) <= MaxPairs
    /\ gi = 0
    /\ oi = 0
    /\ ppc = "outer"
    /\ gene_ids = <<>>
    /\ gene_ids_str = <<>>
    /\ trace = <<>>
    /\ uncaught = None

\* A plausible slip: the header is printed for the first gene symbol only.
PrintHeaderOnce ==
    /\ ppc = "outer"
    /\ gi < Len(gene_symbols)
    /\ gi' = gi + 1
    /\ oi' = 0
    /\ trace' = IF gi > 0 THEN trace
                ELSE Append(trace, [kind |-> "header",
                                    gene_symbol |-> gene_symbols[gi + 1],
                                    organism |-> "", text |-> <<>>])
    /\ ppc' = "inner"
    /\ UNCHANGED <<organisms, gene_symbols, gene_ids, gene_ids_str, uncaught>>
    /\ UNCHANGED <<limiterVars, lookupVars, answerVars>>

\* Lines 180-181: the next gene symbol; its header is printed.
PrintHeader ==
    /\ ppc = "outer"
    /\ gi < Len(gene_symbols)
    /\ gi' = gi + 1
    /\ oi' = 0
    /\ trace' = Append(trace, [kind |-> "header", gene_symbol |-> gene_symbols[gi + 1],
                               organism |-> "", text |-> <<>>])
    /\ ppc' = "inner"
    /\ UNCHANGED <<organisms, gene_symbols, gene_ids, gene_ids_str, uncaught>>
    /\ UNCHANGED <<limiterVars, lookupVars, answerVars>>

\* Line 185, the call returns: the next organism is looked up.  The pause
\* wrap() makes before the call is modelled in SpecLimiter, whose caller is
\* any caller.
LookupReturns ==
    /\ ppc = "inner"
    /\ oi < Len(organisms)
    /\ \E response \in Responses :
          LET r == get_gene_ids_from_gene_symbol(response)
          IN  /\ r.exc = None
              /\ gene_ids' = r.ret[1]
    /\ oi' = oi + 1
    /\ trace' = Append(trace, [kind |-> "lookup", gene_symbol |-> gene_symbols[gi],
                               organism |-> organisms[oi + 1], text |-> <<>>])
    /\ ppc' = "format"
    /\ UNCHANGED <<organisms, gene_symbols, gi, gene_ids_str, uncaught>>
    /\ UNCHANGED <<limiterVars, lookupVars, answerVars>>

\* A plausible slip: the failure is caught and the pair passed over.
LookupRaisesAndIsSkipped ==
    /\ ppc = "inner"
    /\ oi < Len(organisms)
    /\ \E response \in Responses :
          get_gene_ids_from_gene_symbol(response).exc # None
    /\ oi' = oi + 1
    /\ trace' = Append(trace, [kind |-> "lookup", gene_symbol |-> gene_symbols[gi],
                               organism |-> organisms[oi + 1], text |-> <<>>])
    /\ uncaught' = <<"ValueError">>
    /\ UNCHANGED <<organisms, gene_symbols, gi, ppc, gene_ids, gene_ids_str>>
    /\ UNCHANGED <<limiterVars, lookupVars, answerVars>>

\* Line 185, the call raises: nothing in print_gene_info or main (lines
\* 241-251) catches the exception, and the run ends.
LookupRaises ==
    /\ ppc = "inner"
    /\ oi < Len(organisms)
    /\ \E response \in Responses :
          LET r == get_gene_ids_from_gene_symbol(response)
          IN  /\ r.exc # None
              /\ uncaught' = r.exc
    /\ oi' = oi + 1
    /\ trace' = Append(trace, [kind |-> "lookup", gene_symbol |-> gene_symbols[gi],
                               organism |-> organisms[oi + 1], text |-> <<>>])
    /\ ppc' = "terminated"
    /\ UNCHANGED <<organisms, gene_symbols, gi, gene_ids, gene_ids_str>>
    /\ UNCHANGED <<limiterVars, lookupVars, answerVars>>

\* Lines 187-192.
Format ==
    /\ ppc = "format"
    /\ \E is_zero \in BOOLEAN : gene_ids_str' = FormatGeneIds(gene_ids, is_zero)
    /\ ppc' = "print"
    /\ UNCHANGED <<organisms, gene_symbols, gi, oi, gene_ids, trace, uncaught>>
    /\ UNCHANGED <<limiterVars, lookupVars, answerVars>>

\* Line 194: the line of the organism is printed.
PrintLine ==
    /\ ppc = "print"
    /\ trace' = Append(trace, [kind |-> "line", gene_symbol |-> gene_symbols[gi],
                               organism |-> organisms[oi], text |-> gene_ids_str])
    /\ ppc' = "inner"
    /\ UNCHANGED <<organisms, gene_symbols, gi, oi, gene_ids, gene_ids_str, uncaught>>
    /\ UNCHANGED <<limiterVars, lookupVars, answerVars>>

\* Line 183: the organisms are exhausted.
EndOfOrganisms ==
    /\ ppc = "inner"
    /\ oi = Len(organisms)
    /\ ppc' = "outer"
    /\ UNCHANGED <<organisms, gene_symbols, gi, oi, gene_ids, gene_ids_str, trace,
                   uncaught>>
    /\ UNCHANGED <<limiterVars, lookupVars, answerVars>>

\* Lines 180 and 196: the gene symbols are exhausted.
Return ==
    /\ ppc = "outer"
    /\ gi = Len(gene_symbols)
    /\ ppc' = "done"
    /\ UNCHANGED <<organisms, gene_symbols, gi, oi, gene_ids, gene_ids_str, trace,
                   uncaught>>
    /\ UNCHANGED <<limiterVars, lookupVars, answerVars>>

-----------------------------------------------------------------------------
(* limit_calls *)

delta_time == 35
small_delta_time == 1

\* A plausible slip: the small_delta_time margin is left out.
TimeToSleepNoMargin(e) == Max(0, delta_time - e)

\* Line 61: max(0.0, delta_time + small_delta_time - (time.time() - previous_time))
TimeToSleep(e) == Max(0, delta_time + small_delta_time - e)

InitLimiterVars ==
    /\ now = 0
    /\ previous_time = None
    /\ lpc = "idle"
    /\ time_to_sleep = 0
    /\ elapsed = None
    /\ slept = None
    /\ func_start = None
    /\ last_end = None
    /\ last_kind = "none"

\* Time passes while the thread runs or waits for the network.
Tick ==
    /\ now < MaxTime
    /\ now' = now + 1
    /\ UNCHANGED <<previous_time, lpc, time_to_sleep, elapsed, slept,
                   func_start, last_end, last_kind>>
    /\ UNCHANGED <<lookupVars, answerVars, reportVars>>

\* A caller calls the decorated function: wrap(*args) is entered.
Invoke ==
    /\ lpc = "idle"
    /\ lpc' = "check"
    /\ UNCHANGED <<now, previous_time, time_to_sleep, elapsed, slept,
                   func_start, last_end, last_kind>>
    /\ UNCHANGED <<lookupVars, answerVars, reportVars>>

\* Lines 60-62: decide whether to sleep.
CheckElapsed ==
    /\ lpc = "check"
    /\ IF previous_time = None
         THEN /\ lpc' = "call"
              /\ UNCHANGED <<time_to_sleep, elapsed>>
         ELSE LET e == now - previous_time[1]
                  t == TimeToSleep(e)
              IN  /\ elapsed' = <<e>>
                  /\ time_to_sleep' = t
                  /\ lpc' = IF t > 0 THEN "sleep" ELSE "call"
    /\ UNCHANGED <<now, previous_time, slept, func_start, last_end, last_kind>>
    /\ UNCHANGED <<lookupVars, answerVars, reportVars>>

\* Line 63: time.sleep(time_to_sleep) suspends the thread for at least the
\* time asked for.
Sleep ==
    /\ lpc = "sleep"
    /\ \E d \in time_to_sleep .. (time_to_sleep + MaxOversleep) :
          /\ now + d <= MaxTime
          /\ now' = now + d
    /\ slept' = <<time_to_sleep>>
    /\ lpc' = "call"
    /\ UNCHANGED <<previous_time, time_to_sleep, elapsed, func_start, last_end,
                   last_kind>>
    /\ UNCHANGED <<lookupVars, answerVars, reportVars>>

\* Line 66: func(*args) is entered.
CallFunc ==
    /\ lpc = "call"
    /\ lpc' = "in_func"
    /\ func_start' = <<now>>
    /\ time_to_sleep' = 0
    /\ elapsed' = None
    /\ slept' = None
    /\ UNCHANGED <<now, previous_time, last_end, last_kind>>
    /\ UNCHANGED <<lookupVars, answerVars, reportVars>>

\* Line 66: func(*args) returns a value.
FuncReturn ==
    /\ lpc = "in_func"
    /\ lpc' = "record"
    /\ last_end' = <<now>>
    /\ last_kind' = "returned"
    /\ UNCHANGED <<now, previous_time, time_to_sleep, elapsed, slept, func_start>>
    /\ UNCHANGED <<lookupVars, answerVars, reportVars>>

\* Line 66: func(*args) raises (line 136); the exception leaves wrap(), so
\* line 67 is not run.
FuncRaise ==
    /\ lpc = "in_func"
    /\ lpc' = "idle"
    /\ last_end' = <<now>>
    /\ last_kind' = "raised"
    /\ func_start' = None
    /\ UNCHANGED <<now, previous_time, time_to_sleep, elapsed, slept>>
    /\ UNCHANGED <<lookupVars, answerVars, reportVars>>

\* Lines 67-69: self.previous_time = time.time(); return val.
RecordTime ==
    /\ lpc = "record"
    /\ previous_time' = <<now>>
    /\ lpc' = "idle"
    /\ func_start' = None
    /\ UNCHANGED <<now, time_to_sleep, elapsed, slept, last_end, last_kind>>
    /\ UNCHANGED <<lookupVars, answerVars, reportVars>>

-----------------------------------------------------------------------------
(* Specifications *)

InitLimiter == InitLimiterVars /\ InitLookupVars /\ NoAnswers /\ NoReport

NextLimiter ==
    \/ Tick
    \/ Invoke
    \/ CheckElapsed
    \/ Sleep
    \/ CallFunc
    \/ FuncReturn
    \/ FuncRaise
    \/ RecordTime

SpecLimiter == InitLimiter /\ [][NextLimiter]_vars

InitLookup == InitLimiterVars /\ InitLookupVars /\ NoAnswers /\ NoReport

NextLookup ==
    \/ EndpointAddNode
    \/ EndpointAddSubNode
    \/ ParseXml
    \/ LookupGeneIds

SpecLookup == InitLookup /\ [][NextLookup]_vars

InitAnswers == InitLimiterVars /\ InitLookupVars /\ InitAnswerVars /\ NoReport

NextAnswers ==
    \/ GetQuestionnaireAnswers

SpecAnswers == InitAnswers /\ [][NextAnswers]_vars

Init == InitLimiterVars /\ InitLookupVars /\ NoAnswers /\ InitReportVars

Next ==
    \/ PrintHeader
    \/ LookupReturns
    \/ LookupRaises
    \/ Format
    \/ PrintLine
    \/ EndOfOrganisms
    \/ Return

Spec == Init /\ [][Next]_vars

-----------------------------------------------------------------------------
(* Properties of limit_calls *)

MinInterval == delta_time + small_delta_time

\* C1: every invocation after the first enters the wrapped lookup no earlier
\* than delta_time + small_delta_time after the previous invocation's lookup
\* came back to the wrapper.
C1_SeparatedFromPreviousLookup ==
    (lpc = "in_func" /\ last_end # None)
        => func_start[1] >= last_end[1] + MinInterval

\* The separation that does hold: it is measured from the last lookup that
\* returned normally, because only then is previous_time written.
SeparatedFromPreviousReturn ==
    (lpc = "in_func" /\ previous_time # None)
        => func_start[1] >= previous_time[1] + MinInterval

\* C8: once an invocation is over, previous_time holds a timestamp taken
\* after the wrapped function of that invocation came back, whatever call
\* it was.
C8_TimestampAfterEveryCall ==
    (lpc = "idle" /\ last_end # None)
        => (previous_time # None /\ previous_time[1] >= last_end[1])

\* The part of C8 that holds: after a call that returned normally the
\* timestamp is not older than the return.
TimestampAfterReturn ==
    (lpc = "idle" /\ last_kind = "returned")
        => (previous_time # None /\ previous_time[1] >= last_end[1])

\* C9: at the moment the wrapped function is about to be called, the
\* invocation has not slept when previous_time is None or when
\* elapsed >= delta_time + 0.01, and has asked time.sleep for exactly
\* delta_time + 0.01 - elapsed when elapsed < delta_time + 0.01.
C9_SleepsExactlyWhatIsNeeded ==
    lpc = "call" =>
        IF previous_time = None
          THEN slept = None /\ elapsed = None
          ELSE /\ elapsed # None
               /\ elapsed[1] < MinInterval
                     => slept = <<delta_time + 1 - elapsed[1]>>
               /\ elapsed[1] >= MinInterval => slept = None

\* A later invocation found elapsed = 10 and slept 26 before its call.
C9_Witness ==
    /\ lpc = "call"
    /\ previous_time # None
    /\ elapsed = <<10>>
    /\ slept = <<26>>

-----------------------------------------------------------------------------
(* Properties of get_gene_ids_from_xml and get_gene_ids_from_gene_symbol *)

\* The position of the first child of the root tagged IdList, 0 if none.
FirstIdList(root) ==
    IF \E k \in 1..Len(root) : root[k].tag = "IdList"
      THEN CHOOSE k \in 1..Len(root) :
              /\ root[k].tag = "IdList"
              /\ \A m \in 1..(k - 1) : root[m].tag # "IdList"
      ELSE 0

FirstChildIsId(node) == Len(node) > 0 /\ node[1].tag = "Id"

\* The integer values, in document order, of the children whose text
\* parses as an integer.
IntsInOrder(node) ==
    LET parsing == {i \in 1..Len(node) : IntParses(node[i].text)}
        n == Cardinality(parsing)
        at == CHOOSE f \in [1..n -> parsing] :
                 \A a, b \in 1..n : a < b => f[a] < f[b]
    IN  [i \in 1..n |-> IntValue(node[at[i]].text)]

Parsed == xpc \in {"parsed", "returned"}

\* C2 as stated: the lookup fails with a LookupError exactly when the
\* response is not ok, then returns no value, and otherwise returns what
\* get_gene_ids_from_xml makes of the body.
C2_FailsWithLookupError ==
    xpc \in {"returned", "raised"} =>
        /\ (exc # None /\ IsSubclass(exc[1], "LookupError")) <=> ~response_ok
        /\ ~response_ok => ret = None
        /\ response_ok => ret = <<get_gene_ids_from_xml(xml)>>

\* C2 amended: the lookup fails with a ValueError exactly when the response
\* is not ok, then returns no value, and otherwise returns what
\* get_gene_ids_from_xml makes of the body.
C2_FailsWithValueError ==
    xpc \in {"returned", "raised"} =>
        /\ (exc # None /\ IsSubclass(exc[1], "ValueError")) <=> ~response_ok
        /\ exc # None <=> xpc = "raised"
        /\ ~response_ok => ret = None
        /\ response_ok => ret = <<get_gene_ids_from_xml(xml)>>

\* A response that is not ok, whose body holds an IdList with an Id, made
\* the lookup raise.
C2_Witness ==
    /\ xpc = "raised"
    /\ ~response_ok
    /\ exc = <<"ValueError">>
    /\ FirstIdList(xml) # 0
    /\ get_gene_ids_from_xml(xml) # <<>>

\* C3 as stated: whenever the root has an IdList child whose first child is
\* tagged Id, the parser returns the integers of the children of that
\* IdList, in document order, skipping the texts that do not parse.
C3_IdsOfAnyQualifyingIdList ==
    Parsed =>
        \A k \in 1..Len(xml) :
            (xml[k].tag = "IdList" /\ FirstChildIsId(xml[k].children))
                => ret[1] = IntsInOrder(xml[k].children)

\* C3 amended: whenever the first IdList child of the root has a first
\* child tagged Id, the parser returns the integers of the children of that
\* IdList, in document order, skipping the texts that do not parse.
C3_IdsOfFirstIdList ==
    Parsed =>
        LET k == FirstIdList(xml)
        IN  (k # 0 /\ FirstChildIsId(xml[k].children))
                => ret[1] = IntsInOrder(xml[k].children)

\* <Id>12</Id><Id>abc</Id><Id>34</Id> was parsed to [12, 34].
C3_Witness ==
    /\ xpc = "parsed"
    /\ FirstIdList(xml) # 0
    /\ xml[FirstIdList(xml)].children =
          << [tag |-> "Id", text |-> <<"1", "2">>],
             [tag |-> "Id", text |-> <<"a", "b", "c">>],
             [tag |-> "Id", text |-> <<"3", "4">>] >>
    /\ ret = << <<12, 34>> >>

\* C4: the parser returns [] when the root has no IdList child, when the
\* IdList found has no children, and when its first child is not tagged Id.
C4_EmptyWithoutQualifyingIdList ==
    Parsed =>
        LET k == FirstIdList(xml)
        IN  (k = 0 \/ Len(xml[k].children) = 0 \/ xml[k].children[1].tag # "Id")
                => ret[1] = <<>>

\* An IdList whose first child is not an Id and whose second child is
\* <Id>12</Id> was parsed to [].
C4_Witness ==
    /\ xpc = "parsed"
    /\ FirstIdList(xml) # 0
    /\ Len(xml[FirstIdList(xml)].children) >= 2
    /\ xml[FirstIdList(xml)].children[1].tag # "Id"
    /\ xml[FirstIdList(xml)].children[2] = [tag |-> "Id", text |-> <<"1", "2">>]
    /\ ret = << <<>> >>

-----------------------------------------------------------------------------
(* Properties of get_questionnaire_answers *)

IsSeparator(c) == IsSpace(c) \/ c = ","

\* The maximal runs of characters of text that are not separators, as pairs
\* <<first, last>> of positions.
MaximalRuns(text) ==
    {r \in (1..Len(text)) \X (1..Len(text)) :
        /\ r[1] <= r[2]
        /\ \A i \in r[1]..r[2] : ~IsSeparator(text[i])
        /\ r[1] = 1 \/ IsSeparator(text[r[1] - 1])
        /\ r[2] = Len(text) \/ IsSeparator(text[r[2] + 1])}

\* The same runs as texts, in their order of appearance.
RunsInOrder(text) ==
    LET runs == MaximalRuns(text)
        n == Cardinality(runs)
        at == CHOOSE f \in [1..n -> runs] :
                 \A a, b \in 1..n : a < b => f[a][1] < f[b][1]
    IN  [i \in 1..n |-> SubSeq(text, at[i][1], at[i][2])]

\* C10: with the "user-defined" source the symbols returned are the maximal
\* runs of characters that are neither blank nor comma, in order, so none is
\* empty or holds a separator; with the "predefined" source the list ticked
\* is returned as it is.
C10_SymbolsAreMaximalRuns ==
    apc = "done" =>
        IF q_answers.gene_symbol_input = "user-defined"
          THEN /\ selected_gene_symbols = RunsInOrder(q_answers.gene_symbols)
               /\ \A i \in 1..Len(selected_gene_symbols) :
                     /\ selected_gene_symbols[i] # <<>>
                     /\ \A j \in 1..Len(selected_gene_symbols[i]) :
                           ~IsSeparator(selected_gene_symbols[i][j])
          ELSE selected_gene_symbols = q_answers.gene_symbols

\* "A, ,B" was split into A and B.
C10_Witness ==
    /\ apc = "done"
    /\ q_answers.gene_symbol_input = "user-defined"
    /\ q_answers.gene_symbols = <<"A", ",", " ", ",", "B">>
    /\ selected_gene_symbols = << <<"A">>, <<"B">> >>

-----------------------------------------------------------------------------
(* Properties of print_gene_info *)

\* s is the decimal numeral of n: digits, a minus sign before them for a
\* negative n, no blank, no plus sign, no leading zero.
IsDecimalOf(s, n) ==
    /\ s # <<>>
    /\ \A i \in 1..Len(s) : IsDigit(s[i]) \/ (i = 1 /\ s[i] = "-")
    /\ IntParses(s)
    /\ IntValue(s) = n
    /\ IntDigits(s)[1] = "0" => Len(IntDigits(s)) = 1
    /\ s[1] = "-" <=> n < 0

\* s is the numerals of list, in list order, with ", " between them.
IsCommaSpaceJoinOf(s, list) ==
    LET pieces == SplitCommas(s, 1, <<>>)
    IN  /\ Len(pieces) = Len(list)
        /\ IsDecimalOf(pieces[1], list[1])
        /\ \A i \in 2..Len(list) :
              /\ pieces[i] # <<>>
              /\ pieces[i][1] = " "
              /\ IsDecimalOf(Tail(pieces[i]), list[i])

\* C5: the list a lookup returned is rendered as "" when it is empty, as the
\* bare decimal number when it has one element, and as the numbers joined
\* by ", " in list order when it has two or more: "672" for [672] and
\* "12, 34" for [12, 34].
C5_IdsRendered ==
    ppc = "print" =>
        /\ Len(gene_ids) = 0 => gene_ids_str = <<>>
        /\ Len(gene_ids) = 1 => IsDecimalOf(gene_ids_str, gene_ids[1])
        /\ Len(gene_ids) >= 2 => IsCommaSpaceJoinOf(gene_ids_str, gene_ids)
        /\ gene_ids = <<672>> => gene_ids_str = <<"6", "7", "2">>
        /\ gene_ids = <<12, 34>> => gene_ids_str = <<"1", "2", ",", " ", "3", "4">>

\* [12, 34] was rendered as "12, 34".
C5_Witness ==
    /\ ppc = "print"
    /\ gene_ids = <<12, 34>>
    /\ gene_ids_str = <<"1", "2", ",", " ", "3", "4">>

\* What a run without failure does, step p: a block per gene symbol, made
\* of its header and then, per organism, the lookup and the line.
BlockLen == 1 + 2 * Len(organisms)

ExpectedStep(p) ==
    LET g == gene_symbols[((p - 1) \div BlockLen) + 1]
        off == (p - 1) % BlockLen
    IN  IF off = 0 THEN [kind |-> "header", gene_symbol |-> g, organism |-> ""]
        ELSE IF off % 2 = 1
          THEN [kind |-> "lookup", gene_symbol |-> g,
                organism |-> organisms[(off + 1) \div 2]]
          ELSE [kind |-> "line", gene_symbol |-> g, organism |-> organisms[off \div 2]]

StepOf(event) ==
    [kind |-> event.kind, gene_symbol |-> event.gene_symbol,
     organism |-> event.organism]

\* C6: as long as no lookup fails the run makes one lookup per pair, gene
\* symbols outer and organisms inner, prints the header of a gene symbol
\* before its lookups and the line of an organism right after its lookup
\* and before the next one; at the return every pair has been dealt with.
C6_OneLookupPerPairInOrder ==
    uncaught = None =>
        /\ Len(trace) <= BlockLen * Len(gene_symbols)
        /\ \A p \in 1..Len(trace) : StepOf(trace[p]) = ExpectedStep(p)
        /\ ppc = "done" => Len(trace) = BlockLen * Len(gene_symbols)

\* A report over two gene symbols and two organisms was printed to the end.
C6_Witness ==
    /\ ppc = "done"
    /\ uncaught = None
    /\ Len(gene_symbols) = 2
    /\ Len(organisms) = 2
    /\ Len(trace) = 10

\* C7: once a lookup has failed the exception is caught nowhere and the run
\* is over: the failed lookup is the last thing the run did, so no line is
\* printed for its pair and no later pair is looked up or printed.
C7_FailureEndsTheRun ==
    /\ [](uncaught # None =>
            /\ ppc = "terminated"
            /\ trace # <<>>
            /\ StepOf(trace[Len(trace)]) =
                  [kind |-> "lookup", gene_symbol |-> gene_symbols[gi],
                   organism |-> organisms[oi]])
    /\ [][uncaught # None => UNCHANGED <<trace, ppc, uncaught>>]_vars

\* The second lookup of a report with pairs still to come failed.
C7_Witness ==
    /\ uncaught = <<"ValueError">>
    /\ Len(trace) = 4
    /\ trace[3].kind = "line"
    /\ gi < Len(gene_symbols)

====
